---- MODULE Spec2Model ----
(***************************************************************************)
(* A model of term_grid (src/src/lib.rs): a Grid of cells with its running *)
(* aggregates, the two dimension solvers (fit_into_columns and             *)
(* fit_into_width) and the renderer (impl fmt::Display for Display).       *)
(*                                                                         *)
(* A cell is its width and its alignment; its contents are one opaque      *)
(* token.  A Text filling is a string of one-column characters, so that    *)
(* its width is its length.  One Display is followed at a time: a solver   *)
(* call is made once the previous Display is dropped (the solvers are pure *)
(* functions of the grid, so no outcome is lost).  Widths are far below    *)
(* usize::MAX: the only arithmetic faults modelled are the ones small      *)
(* numbers can reach, a division by zero, a subtraction below zero and an  *)
(* index out of bounds.  A fault is an outcome ("Panic") of the call,      *)
(* never an error of the model.                                            *)
(***************************************************************************)
EXTENDS Integers, Sequences, FiniteSets, TLC

VARIABLES options, cells, widest_cell_width, narrowest_cell_width,
          width_sum, cell_count, display, rendered

vars == <<options, cells, widest_cell_width, narrowest_cell_width,
          width_sum, cell_count, display, rendered>>

grid == <<options, cells, widest_cell_width, narrowest_cell_width,
          width_sum, cell_count>>

----------------------------------------------------------------------------
(* Bounds of the model. *)

(* Spec: the solvers, over cells built by Cell::from (left-aligned). *)
MaxCells == 4

MaxWidth == 2

MaxFilling == 1

MaxBudget == 12

MaxColumns == 5

(* SpecRender: the renderer, over cells of either alignment. *)
MaxRenderCells == 3

MaxRenderWidth == 1

MaxRenderBudget == 5

MaxRenderColumns == 4

(* SpecBig: the scenario of test::two_big_items, widths around its budget. *)
BigLow == 37

BigHigh == 41

MaxBigCells == 2

(* SpecBuild: the builder alone, Grid::new, add and reserve. *)
MaxBuildCells == 3

MaxBuildWidth == 2

MaxReserve == 2

(* usize::MAX, the narrowest width of an empty grid; it stands for 2^64-1. *)
UsizeMax == 2147483647

BigBudget == 40

BigFilling == 2

----------------------------------------------------------------------------
(* The enumerations and the values the caller builds. *)

Alignment == {"Left", "Right"}

Direction == {"LeftToRight", "TopToBottom"}

Spaces(n) == [kind |-> "Spaces", width |-> n]

Text(n) == [kind |-> "Text", width |-> n]

Filling == {Spaces(n) : n \in 0..MaxFilling} \cup {Text(n) : n \in 0..MaxFilling}

FillingWidth(f) == f.width

GridOptions == [direction : Direction, filling : Filling]

Cell(w, a) == [width |-> w, alignment |-> a]

Max(a, b) == IF a >= b THEN a ELSE b

Min(a, b) == IF a <= b THEN a ELSE b

RECURSIVE Sum(_)
Sum(s) == IF s = <<>> THEN 0 ELSE Head(s) + Sum(Tail(s))

----------------------------------------------------------------------------
(* Dimensions and the outcome of a solver call. *)

Dimensions(num_lines, widths) == [num_lines |-> num_lines, widths |-> widths]

NoDimensions == Dimensions(0, <<>>)

Some(d) == [outcome |-> "Some", fault |-> "none", dimensions |-> d]

None == [outcome |-> "None", fault |-> "none", dimensions |-> NoDimensions]

Panic(f) == [outcome |-> "Panic", fault |-> f, dimensions |-> NoDimensions]

total_width(d, separator_width) ==
    IF d.widths = <<>> THEN 0
    ELSE Sum(d.widths) + separator_width * (Len(d.widths) - 1)

----------------------------------------------------------------------------
(* Grid::column_widths and Grid::columns_dimensions. *)

(* The column a cell index is measured in. *)
column_of(index, num_lines, num_columns) ==
    IF options.direction = "LeftToRight" THEN index % num_columns
    ELSE index \div num_lines

RECURSIVE column_widths_from(_, _, _, _)
column_widths_from(i, widths, num_lines, num_columns) ==
    IF i > Len(cells) THEN Some(Dimensions(num_lines, widths))
    ELSE IF options.direction = "TopToBottom" /\ num_lines = 0
         THEN Panic("divide_by_zero")
    ELSE LET index == column_of(i - 1, num_lines, num_columns)
         IN IF index >= num_columns THEN Panic("index_out_of_bounds")
            ELSE column_widths_from(i + 1,
                     [widths EXCEPT ![index + 1] = Max(@, cells[i].width)],
                     num_lines, num_columns)

column_widths(num_lines, num_columns) ==
    column_widths_from(1, [c \in 1..num_columns |-> 0], num_lines, num_columns)

(* Mutant: the row of the remainder is forgotten (floor, not ceiling). *)
columns_dimensions_floor(num_columns) ==
    IF num_columns = 0 THEN Panic("divide_by_zero")
    ELSE column_widths(Len(cells) \div num_columns, num_columns)

columns_dimensions(num_columns) ==
    IF num_columns = 0 THEN Panic("divide_by_zero")
    ELSE LET q == Len(cells) \div num_columns
             num_lines == IF Len(cells) % num_columns # 0 THEN q + 1 ELSE q
         IN column_widths(num_lines, num_columns)

----------------------------------------------------------------------------
(* Grid::theoretical_max_column_count and Grid::width_dimensions. *)

(* Mutant: the widest column is not counted back in (no + 1). *)
theoretical_max_column_count_no_plus_one(maximum_width) ==
    Min((maximum_width - widest_cell_width)
            \div (narrowest_cell_width + FillingWidth(options.filling)),
        cell_count)

theoretical_max_column_count(maximum_width) ==
    Min((maximum_width - widest_cell_width)
            \div (narrowest_cell_width + FillingWidth(options.filling)) + 1,
        cell_count)

(* Mutant: the separators are not taken off the budget. *)
RECURSIVE scan_columns_no_separators(_, _)
scan_columns_no_separators(num_columns, maximum_width) ==
    IF num_columns < 2 THEN {columns_dimensions(1)}
    ELSE LET potential_dimensions == columns_dimensions(num_columns)
         IN IF potential_dimensions.outcome # "Some" THEN {potential_dimensions}
            ELSE IF Sum(potential_dimensions.dimensions.widths) < maximum_width
                 THEN {potential_dimensions}
            ELSE scan_columns_no_separators(num_columns - 1, maximum_width)

(* Mutant: the operands of the width test are swapped. *)
RECURSIVE scan_columns_swapped(_, _)
scan_columns_swapped(num_columns, maximum_width) ==
    IF num_columns < 2 THEN {columns_dimensions(1)}
    ELSE LET potential_dimensions == columns_dimensions(num_columns)
             total_separator_width ==
                 (num_columns - 1) * FillingWidth(options.filling)
         IN IF potential_dimensions.outcome # "Some" THEN {potential_dimensions}
            ELSE IF total_separator_width > maximum_width
                 THEN {Panic("subtract_overflow"), potential_dimensions}
            ELSE IF maximum_width - total_separator_width
                        < Sum(potential_dimensions.dimensions.widths)
                 THEN {potential_dimensions}
            ELSE scan_columns_swapped(num_columns - 1, maximum_width)

(* Mutant: the width test is <= where the code has <. *)
RECURSIVE scan_columns_not_strict(_, _)
scan_columns_not_strict(num_columns, maximum_width) ==
    IF num_columns < 2 THEN {columns_dimensions(1)}
    ELSE LET potential_dimensions == columns_dimensions(num_columns)
             total_separator_width ==
                 (num_columns - 1) * FillingWidth(options.filling)
         IN IF potential_dimensions.outcome # "Some" THEN {potential_dimensions}
            ELSE IF total_separator_width > maximum_width
                 THEN {Panic("subtract_overflow"), potential_dimensions}
            ELSE IF Sum(potential_dimensions.dimensions.widths)
                        <= maximum_width - total_separator_width
                 THEN {potential_dimensions}
            ELSE scan_columns_not_strict(num_columns - 1, maximum_width)

(* The scan of width_dimensions from num_columns down to 2, then the     *)
(* single column.  A subtraction below zero panics in a build with       *)
(* overflow checks and wraps to a huge budget in one without: both       *)
(* outcomes are in the set.                                              *)
RECURSIVE scan_columns(_, _)
scan_columns(num_columns, maximum_width) ==
    IF num_columns < 2 THEN {columns_dimensions(1)}
    ELSE LET potential_dimensions == columns_dimensions(num_columns)
             total_separator_width ==
                 (num_columns - 1) * FillingWidth(options.filling)
         IN IF potential_dimensions.outcome # "Some" THEN {potential_dimensions}
            ELSE IF total_separator_width > maximum_width
                 THEN {Panic("subtract_overflow"), potential_dimensions}
            ELSE IF Sum(potential_dimensions.dimensions.widths)
                        < maximum_width - total_separator_width
                 THEN {potential_dimensions}
            ELSE scan_columns(num_columns - 1, maximum_width)

(* Mutant: a cell exactly as wide as the budget is refused. *)
width_dimensions_refuses_exact(maximum_width) ==
    IF widest_cell_width >= maximum_width THEN {None}
    ELSE IF cell_count = 0 THEN {Some(Dimensions(0, <<>>))}
    ELSE IF cell_count = 1 THEN {Some(Dimensions(1, <<cells[1].width>>))}
    ELSE IF FillingWidth(options.filling) > maximum_width THEN {None}
    ELSE IF narrowest_cell_width + FillingWidth(options.filling) = 0
         THEN {Panic("divide_by_zero")}
    ELSE scan_columns(theoretical_max_column_count(maximum_width), maximum_width)

(* The division of theoretical_max_column_count faults here, at its call. *)
width_dimensions(maximum_width) ==
    IF widest_cell_width > maximum_width THEN {None}
    ELSE IF cell_count = 0 THEN {Some(Dimensions(0, <<>>))}
    ELSE IF cell_count = 1 THEN {Some(Dimensions(1, <<cells[1].width>>))}
    ELSE IF FillingWidth(options.filling) > maximum_width THEN {None}
    ELSE IF narrowest_cell_width + FillingWidth(options.filling) = 0
         THEN {Panic("divide_by_zero")}
    ELSE scan_columns(theoretical_max_column_count(maximum_width), maximum_width)

----------------------------------------------------------------------------
(* impl fmt::Display for Display, spaces and pad_string.  A string is a    *)
(* sequence of tokens: the contents of cell num, a space, a character of   *)
(* the Text filling.  A line is the string written before its writeln.     *)

Contents(num) == <<"cell", num>>

Space == <<"space">>

FillingChar == <<"text">>

spaces(length) == [k \in 1..length |-> Space]

FillingText(f) == [k \in 1..f.width |-> FillingChar]

(* Mutant: the padding always goes after the string. *)
pad_string_always_after(string, padding, alignment) ==
    string \o spaces(padding)

pad_string(string, padding, alignment) ==
    IF alignment = "Left" THEN string \o spaces(padding)
    ELSE spaces(padding) \o string

Written(text) == [outcome |-> "Ok", fault |-> "none", text |-> text]

Aborted(f) == [outcome |-> "Panic", fault |-> f, text |-> <<>>]

(* Mutant: TopToBottom strides by the columns, not by the lines. *)
slot_index_column_stride(y, x, num_lines, num_columns) ==
    IF options.direction = "LeftToRight" THEN y * num_columns + x
    ELSE y + num_columns * x

(* The cell index rendered at line y, column x. *)
slot_index(y, x, num_lines, num_columns) ==
    IF options.direction = "LeftToRight" THEN y * num_columns + x
    ELSE y + num_lines * x

(* What one turn of the inner loop writes. *)
fmt_slot(y, x) ==
    LET widths == display.dimensions.widths
        num == slot_index(y, x, display.dimensions.num_lines, Len(widths))
    IN IF num >= Len(cells) THEN Written(<<>>)
       ELSE LET cell == cells[num + 1]
            IN IF x = Len(widths) - 1
               THEN IF cell.alignment = "Left" THEN Written(<<Contents(num)>>)
                    ELSE IF widths[x + 1] < cell.width
                         THEN Aborted("subtract_overflow")
                    ELSE Written(pad_string(<<Contents(num)>>,
                                            widths[x + 1] - cell.width, "Right"))
               ELSE IF ~(widths[x + 1] >= cell.width)
                    THEN Aborted("assertion_failed")
               ELSE IF options.filling.kind = "Spaces" /\ cell.alignment = "Left"
                    THEN Written(pad_string(<<Contents(num)>>,
                             widths[x + 1] - cell.width + options.filling.width,
                             cell.alignment))
               ELSE IF options.filling.kind = "Spaces"
                    THEN Written(pad_string(<<Contents(num)>>,
                                     widths[x + 1] - cell.width, cell.alignment)
                                 \o spaces(options.filling.width))
               ELSE Written(pad_string(<<Contents(num)>>,
                                widths[x + 1] - cell.width, cell.alignment)
                            \o FillingText(options.filling))

RECURSIVE fmt_line(_, _, _)
fmt_line(y, x, line) ==
    IF x >= Len(display.dimensions.widths) THEN Written(line)
    ELSE LET w == fmt_slot(y, x)
         IN IF w.outcome # "Ok" THEN w
            ELSE fmt_line(y, x + 1, line \o w.text)

RECURSIVE fmt_lines(_, _)
fmt_lines(y, lines) ==
    IF y >= display.dimensions.num_lines
    THEN [outcome |-> "Ok", fault |-> "none", lines |-> lines]
    ELSE LET l == fmt_line(y, 0, <<>>)
         IN IF l.outcome # "Ok"
            THEN [outcome |-> "Panic", fault |-> l.fault, lines |-> lines]
            ELSE fmt_lines(y + 1, Append(lines, l.text))

fmt == fmt_lines(0, <<>>)

----------------------------------------------------------------------------
(* The state and the operations. *)

NoDisplay == [call |-> "none", arg |-> 0] @@ None

NotRendered == [outcome |-> "none", fault |-> "none", lines |-> <<>>]

NewGrid(opts) ==
    /\ options = opts
    /\ cells = <<>>
    /\ widest_cell_width = 0
    /\ narrowest_cell_width = UsizeMax
    /\ width_sum = 0
    /\ cell_count = 0
    /\ display = NoDisplay
    /\ rendered = NotRendered

(* Grid::reserve.  It makes room in the Vec of the cells; the capacity of   *)
(* the Vec is no part of the state, nothing of the crate reads it.         *)
Reserve(additional) ==
    /\ display.call = "none"
    /\ UNCHANGED vars

(* Mutant: the narrowest width is compared with the widest one. *)
Add_narrowest_against_widest(cell) ==
    /\ display.call = "none"
    /\ widest_cell_width' =
           IF cell.width > widest_cell_width THEN cell.width ELSE widest_cell_width
    /\ narrowest_cell_width' =
           IF cell.width < widest_cell_width THEN cell.width
           ELSE narrowest_cell_width
    /\ width_sum' = width_sum + cell.width
    /\ cell_count' = cell_count + 1
    /\ cells' = Append(cells, cell)
    /\ UNCHANGED <<options, display, rendered>>

(* Grid::add.  A Display borrows the grid, so none is alive across an add. *)
Add(cell) ==
    /\ display.call = "none"
    /\ widest_cell_width' =
           IF cell.width > widest_cell_width THEN cell.width ELSE widest_cell_width
    /\ narrowest_cell_width' =
           IF cell.width < narrowest_cell_width THEN cell.width
           ELSE narrowest_cell_width
    /\ width_sum' = width_sum + cell.width
    /\ cell_count' = cell_count + 1
    /\ cells' = Append(cells, cell)
    /\ UNCHANGED <<options, display, rendered>>

FitIntoWidth(maximum_width) ==
    /\ display.call = "none"
    /\ \E r \in width_dimensions(maximum_width) :
           display' = [call |-> "fit_into_width", arg |-> maximum_width] @@ r
    /\ UNCHANGED <<grid, rendered>>

FitIntoColumns(num_columns) ==
    /\ display.call = "none"
    /\ display' = [call |-> "fit_into_columns", arg |-> num_columns]
                      @@ columns_dimensions(num_columns)
    /\ UNCHANGED <<grid, rendered>>

(* Display::fmt, on a Display a solver returned. *)
Fmt ==
    /\ display.outcome = "Some"
    /\ rendered' = fmt
    /\ UNCHANGED <<grid, display>>

(* The Display (or the absence, or the unwound panic) goes out of scope. *)
Drop ==
    /\ display.call # "none"
    /\ display' = NoDisplay
    /\ rendered' = NotRendered
    /\ UNCHANGED grid

----------------------------------------------------------------------------
(* Spec: grids of left-aligned cells, and the two solvers. *)

Init == \E opts \in GridOptions : NewGrid(opts)

Next ==
    \/ \E w \in 0..MaxWidth : cell_count < MaxCells /\ Add(Cell(w, "Left"))
    \/ \E m \in 0..MaxBudget : FitIntoWidth(m)
    \/ \E n \in 0..MaxColumns : FitIntoColumns(n)
    \/ Drop

Spec == Init /\ [][Next]_vars

(* SpecRender: grids of cells of either alignment, solved and rendered. *)

NextRender ==
    \/ \E w \in 0..MaxRenderWidth, a \in Alignment :
           cell_count < MaxRenderCells /\ Add(Cell(w, a))
    \/ \E m \in 0..MaxRenderBudget : FitIntoWidth(m)
    \/ \E n \in 0..MaxRenderColumns : FitIntoColumns(n)
    \/ Fmt
    \/ Drop

SpecRender == Init /\ [][NextRender]_vars

(* SpecBig: cells about as wide as the budget of test::two_big_items. *)

InitBig ==
    \E opts \in [direction : Direction, filling : Filling \cup {Spaces(BigFilling)}] :
        NewGrid(opts)

NextBig ==
    \/ \E w \in BigLow..BigHigh : cell_count < MaxBigCells /\ Add(Cell(w, "Left"))
    \/ FitIntoWidth(BigBudget)
    \/ Drop

SpecBig == InitBig /\ [][NextBig]_vars

(* SpecBuild: a grid is built, with cells of either alignment. *)

NextBuild ==
    \/ \E w \in 0..MaxBuildWidth, a \in Alignment :
           cell_count < MaxBuildCells /\ Add(Cell(w, a))
    \/ \E n \in 0..MaxReserve : Reserve(n)

SpecBuild == Init /\ [][NextBuild]_vars

----------------------------------------------------------------------------
(* What the claims are stated with. *)

FromFitIntoWidth == display.call = "fit_into_width"

FromFitIntoColumns == display.call = "fit_into_columns"

IsDisplay == display.outcome = "Some"

(* Display::width of the Display held. *)
width == total_width(display.dimensions, FillingWidth(options.filling))

row_count == display.dimensions.num_lines

num_columns_held == Len(display.dimensions.widths)

(* ceil(a / b), b >= 1, as the least q with q * b >= a. *)
CeilDiv(a, b) == CHOOSE q \in 0..a : q * b >= a /\ \A p \in 0..(q - 1) : p * b < a

(* fit_into_columns(k) passes the width test of budget m. *)
FitsStrictly(k, m) ==
    LET d == columns_dimensions(k)
    IN d.outcome = "Some"
       /\ Sum(d.dimensions.widths) + (k - 1) * FillingWidth(options.filling) < m

----------------------------------------------------------------------------
(* C1: a Display returned by fit_into_width(m) has width() at most m. *)
C1_WidthWithinBudget ==
    (FromFitIntoWidth /\ IsDisplay) => width <= display.arg

(* C1's case: several columns chosen by the scan, as wide as the test allows. *)
C1_Witness ==
    /\ FromFitIntoWidth /\ IsDisplay
    /\ num_columns_held >= 3
    /\ FillingWidth(options.filling) >= 1
    /\ width = display.arg - 1

(* C2: no column count in 2..count, tried by the scan or not, passes the   *)
(* width test of m with fewer rows than the Display fit_into_width(m)      *)
(* returned.                                                               *)
C2_FewestRows ==
    (FromFitIntoWidth /\ IsDisplay /\ cell_count >= 2) =>
        \A k \in 2..cell_count :
            ~(FitsStrictly(k, display.arg) /\ CeilDiv(cell_count, k) < row_count)

(* C2's case: the analytic bound cut column counts off the scan, and the   *)
(* scan found a layout of several columns below it.                        *)
C2_Witness ==
    /\ FromFitIntoWidth /\ IsDisplay
    /\ cell_count >= 4
    /\ num_columns_held >= 2
    /\ num_columns_held < cell_count
    /\ theoretical_max_column_count(display.arg) < cell_count

(* C3: on one grid, a budget m1 <= m2 never gets fewer rows than m2: the   *)
(* Display held, for m2, has no more rows than any Display a smaller       *)
(* budget returns.                                                         *)
C3_Monotone ==
    (FromFitIntoWidth /\ IsDisplay) =>
        \A m1 \in 0..display.arg :
            \A r \in width_dimensions(m1) :
                r.outcome = "Some" => row_count <= r.dimensions.num_lines

(* C3's case: a smaller budget returns a Display of strictly more rows. *)
C3_Witness ==
    /\ FromFitIntoWidth /\ IsDisplay
    /\ cell_count >= 3
    /\ \E m1 \in 0..display.arg :
           \E r \in width_dimensions(m1) :
               /\ r.outcome = "Some"
               /\ Len(r.dimensions.widths) >= 2
               /\ row_count < r.dimensions.num_lines

(* C4: fit_into_width(m) returns absence exactly when a cell is wider than *)
(* m, or the grid holds two cells or more and the filling is wider than m; *)
(* in every other case it returns a Display, the single column when no     *)
(* column count in 2..max_columns passes the width test.                   *)
C4_AbsenceExactly ==
    FromFitIntoWidth =>
        LET absent == \/ \E i \in 1..Len(cells) : cells[i].width > display.arg
                      \/ /\ Len(cells) >= 2
                         /\ FillingWidth(options.filling) > display.arg
        IN /\ absent => display.outcome = "None"
           /\ ~absent => IsDisplay
           /\ (~absent /\ Len(cells) >= 2
                 /\ \A k \in 2..theoretical_max_column_count(display.arg) :
                        ~FitsStrictly(k, display.arg))
                => display.dimensions = columns_dimensions(1).dimensions

(* C5, as claimed: a Display returned by fit_into_width(m) has width()     *)
(* strictly under m.                                                       *)
C5_StrictlyUnder ==
    (FromFitIntoWidth /\ IsDisplay) => width < display.arg

(* C5, amended: a Display of two columns or more returned by               *)
(* fit_into_width(m) has width() strictly under m; one of a single column  *)
(* or of none has width() at most m.                                       *)
C5_StrictOnlyForSeveralColumns ==
    (FromFitIntoWidth /\ IsDisplay) =>
        /\ num_columns_held >= 2 => width < display.arg
        /\ num_columns_held <= 1 => width <= display.arg

(* C5's case: the single column, exactly as wide as the budget. *)
C5_Witness ==
    /\ FromFitIntoWidth /\ IsDisplay
    /\ cell_count >= 2
    /\ num_columns_held = 1
    /\ width = display.arg
    /\ display.arg >= 1

(* C6's precondition: two cells, Spaces(2), fit_into_width(40). *)
TwoCellsAtBigBudget ==
    /\ FromFitIntoWidth
    /\ display.arg = BigBudget
    /\ options.filling = Spaces(BigFilling)
    /\ Len(cells) = 2

(* C6, as claimed: two cells of width 37 or more each, Spaces(2):          *)
(* fit_into_width(40) returns absence.                                     *)
C6_TwoBigItemsAbsent ==
    (TwoCellsAtBigBudget /\ \A i \in 1..2 : cells[i].width >= 37) =>
        display.outcome = "None"

(* C6, amended: for two cells and Spaces(2), fit_into_width(40) returns    *)
(* absence exactly when a cell is wider than 40; two cells of widths in    *)
(* 37..40 get the Display of a single column and two rows.                 *)
C6_TwoBigItemsAbsentIffOver ==
    TwoCellsAtBigBudget =>
        /\ display.outcome = "None" <=> \E i \in 1..2 : cells[i].width > BigBudget
        /\ (\A i \in 1..2 : cells[i].width >= 37 /\ cells[i].width <= BigBudget)
             => /\ IsDisplay
                /\ row_count = 2
                /\ display.dimensions.widths
                       = <<Max(cells[1].width, cells[2].width)>>

(* C6's case: both cells in 37..40, one of them exactly 40. *)
C6_Witness ==
    /\ TwoCellsAtBigBudget
    /\ cells[1].width = 37
    /\ cells[2].width = BigBudget
    /\ IsDisplay

(* The cells C7 maps to column c of a layout of n columns and l lines. *)
CellsMappedTo(c, n, l) ==
    {i \in 0..(Len(cells) - 1) :
        IF options.direction = "LeftToRight" THEN i % n = c ELSE i \div l = c}

(* The greatest width among the cells of indices S, 0 when there is none. *)
MaxWidthAmong(S) ==
    IF S = {} THEN 0
    ELSE CHOOSE w \in {cells[i + 1].width : i \in S} :
             \A i \in S : cells[i + 1].width <= w

(* The places of a rendered line that hold the contents of a cell. *)
CellPlaces(line) == {k \in 1..Len(line) : line[k][1] = "cell"}

(* C7: for n >= 1, fit_into_columns(n) returns a Display of ceil(count/n)  *)
(* rows and n column widths, column c as wide as the widest cell mapped to *)
(* it (i mod n under LeftToRight, i div num_lines under TopToBottom) and 0 *)
(* wide when it has none; num_lines * n >= count; its rendering has        *)
(* ceil(count/n) lines, each holding a cell.                               *)
C7_FitIntoColumns ==
    (FromFitIntoColumns /\ display.arg >= 1) =>
        LET n == display.arg
            l == CeilDiv(cell_count, n)
        IN /\ IsDisplay
           /\ row_count = l
           /\ num_columns_held = n
           /\ \A c \in 0..(n - 1) :
                  display.dimensions.widths[c + 1]
                      = MaxWidthAmong(CellsMappedTo(c, n, l))
           /\ row_count * n >= cell_count
           /\ rendered.outcome # "none" =>
                  /\ rendered.outcome = "Ok"
                  /\ Len(rendered.lines) = l
                  /\ \A y \in 1..Len(rendered.lines) :
                         CellPlaces(rendered.lines[y]) # {}

(* C7's case: three cells in two columns, top to bottom, rendered: the     *)
(* last line is ragged and the columns differ in width.                    *)
C7_Witness ==
    /\ FromFitIntoColumns /\ IsDisplay
    /\ display.arg = 2
    /\ cell_count = 3
    /\ options.direction = "TopToBottom"
    /\ display.dimensions.widths[1] # display.dimensions.widths[2]
    /\ rendered.outcome = "Ok"
    /\ Len(rendered.lines) = 2

(* C8: fit_into_columns(0) ends in an invalid-argument error, with no      *)
(* Display and without running into the division by zero.                  *)
C8_ZeroColumnsRejected ==
    (FromFitIntoColumns /\ display.arg = 0) =>
        /\ ~IsDisplay
        /\ display.fault = "invalid_argument"

(* The slots (y, x) the renderer visits. *)
Slots == (0..(row_count - 1)) \X (0..(num_columns_held - 1))

SlotIndex(s) == slot_index(s[1], s[2], row_count, num_columns_held)

(* How often the contents of cell num were written. *)
TimesWritten(num) ==
    Cardinality(UNION {{<<y, k>> : k \in {j \in 1..Len(rendered.lines[y]) :
                                             rendered.lines[y][j] = Contents(num)}} :
                       y \in 1..Len(rendered.lines)})

(* C9: for a Display of fit_into_columns(n >= 1) or of fit_into_width, the *)
(* slots of the renderer hold every cell index below count exactly once,   *)
(* each at the column column_widths measured it in, so that the column is  *)
(* at least as wide as the cell; rendering does not fail and writes every  *)
(* cell once.                                                              *)
C9_MappingsInverse ==
    (IsDisplay /\ (FromFitIntoWidth \/ (FromFitIntoColumns /\ display.arg >= 1))) =>
        /\ \A i \in 0..(cell_count - 1) :
               Cardinality({s \in Slots : SlotIndex(s) = i}) = 1
        /\ \A s \in Slots :
               SlotIndex(s) < cell_count =>
                   /\ column_of(SlotIndex(s), row_count, num_columns_held) = s[2]
                   /\ display.dimensions.widths[s[2] + 1]
                          >= cells[SlotIndex(s) + 1].width
        /\ rendered.outcome # "none" =>
               /\ rendered.outcome = "Ok"
               /\ \A i \in 0..(cell_count - 1) : TimesWritten(i) = 1

(* C9's case: a rendered TopToBottom layout of several lines and columns   *)
(* with an empty trailing slot.                                            *)
C9_Witness ==
    /\ IsDisplay /\ FromFitIntoWidth
    /\ options.direction = "TopToBottom"
    /\ row_count >= 2
    /\ num_columns_held >= 2
    /\ row_count * num_columns_held > cell_count
    /\ rendered.outcome = "Ok"

(* The columns of line y that hold a cell, and the last of them. *)
RealColumns(y) ==
    {x \in 0..(num_columns_held - 1) :
        slot_index(y, x, row_count, num_columns_held) < cell_count}

LastRealColumn(y) == CHOOSE x \in RealColumns(y) : \A z \in RealColumns(y) : z <= x

LastRealCell(y) == slot_index(y, LastRealColumn(y), row_count, num_columns_held)

(* What line y holds after the contents of its last cell. *)
AfterLastCell(y) ==
    LET line == rendered.lines[y + 1]
        k == CHOOSE j \in 1..Len(line) : line[j] = Contents(LastRealCell(y))
    IN SubSeq(line, k + 1, Len(line))

Repeated(token, n) == [k \in 1..n |-> token]

(* C10, as claimed: a line whose last cell is followed only by slots of    *)
(* index >= count ends right after that cell's contents.                   *)
C10_NoTrailingArtifact ==
    rendered.outcome = "Ok" =>
        \A y \in 0..(row_count - 1) :
            (RealColumns(y) # {} /\ LastRealColumn(y) < num_columns_held - 1)
                => AfterLastCell(y) = <<>>

(* C10, amended: a slot of index >= count writes nothing, but the last     *)
(* cell of a line, when it is not in the final column, is still followed   *)
(* by its own column's padding (width of the column less its own, if it is *)
(* left-aligned) and by one filling; the line ends right after the cell's  *)
(* contents when the cell is in the final column.                          *)
C10_TrailingIsPaddingAndFilling ==
    rendered.outcome = "Ok" =>
        \A y \in 0..(row_count - 1) :
            RealColumns(y) # {} =>
                LET x == LastRealColumn(y)
                    cell == cells[LastRealCell(y) + 1]
                    padding == IF cell.alignment = "Left"
                               THEN display.dimensions.widths[x + 1] - cell.width
                               ELSE 0
                IN AfterLastCell(y) =
                       IF x = num_columns_held - 1 THEN <<>>
                       ELSE Repeated(Space, padding)
                            \o Repeated(IF options.filling.kind = "Spaces"
                                        THEN Space ELSE FillingChar,
                                        options.filling.width)

(* C10's case: a ragged line whose last cell, right-aligned in a column    *)
(* wider than itself, is followed by the Text filling.                     *)
C10_Witness ==
    /\ rendered.outcome = "Ok"
    /\ options.filling = Text(1)
    /\ \E y \in 0..(row_count - 1) :
           /\ RealColumns(y) # {}
           /\ LastRealColumn(y) < num_columns_held - 1
           /\ cells[LastRealCell(y) + 1].alignment = "Right"
           /\ cells[LastRealCell(y) + 1].width
                  < display.dimensions.widths[LastRealColumn(y) + 1]
           /\ AfterLastCell(y) = <<FillingChar>>

(* C11: fit_into_width is total: for every grid, zero-width cells and      *)
(* fillings of width 0 included, and every budget, the call returns a      *)
(* Display or absence, with no division by zero and no subtraction below   *)
(* zero.                                                                   *)
C11_FitIntoWidthTotal ==
    FromFitIntoWidth =>
        /\ display.outcome \in {"Some", "None"}
        /\ display.fault = "none"

(* The least width among the cells, usize::MAX when there is none. *)
MinWidthOfCells ==
    IF cells = <<>> THEN UsizeMax
    ELSE CHOOSE w \in {cells[i].width : i \in 1..Len(cells)} :
             \A i \in 1..Len(cells) : w <= cells[i].width

(* The aggregates are those of the cells held. *)
AggregatesExact ==
    /\ cell_count = Len(cells)
    /\ widest_cell_width = MaxWidthAmong(0..(Len(cells) - 1))
    /\ narrowest_cell_width = MinWidthOfCells
    /\ width_sum = Sum([i \in 1..Len(cells) |-> cells[i].width])

(* A step appends one cell after the cells held, or leaves them as they are. *)
CellsOnlyAppended ==
    \/ cells' = cells
    \/ /\ Len(cells') = Len(cells) + 1
       /\ SubSeq(cells', 1, Len(cells)) = cells

(* C12: after Grid::new and any adds and reserves, count is the number of  *)
(* cells, widest their greatest width (0 when empty), narrowest their      *)
(* least width (usize::MAX when empty), width_sum the sum of their widths; *)
(* each add appends its cell and leaves the earlier cells as they were,    *)
(* and a reserve changes nothing.                                          *)
C12_AggregatesExact ==
    /\ []AggregatesExact
    /\ [][CellsOnlyAppended]_vars

(* C12's case: three cells added, the widest neither first nor last, the   *)
(* narrowest last.                                                         *)
C12_Witness ==
    /\ Len(cells) = 3
    /\ cells[1].width = 1 /\ cells[2].width = 2 /\ cells[3].width = 0
    /\ cells[2].alignment = "Right"
    /\ widest_cell_width = 2
    /\ narrowest_cell_width = 0
    /\ width_sum = 3
    /\ cell_count = 3

(* Display::is_complete of the Display held. *)
is_complete == \A x \in 1..num_columns_held : display.dimensions.widths[x] > 0

(* C13: for a grid whose cells are all at least 1 wide, a Display returned *)
(* by fit_into_width, in either direction, is complete: every column holds *)
(* a cell, none is 0 wide and is_complete() is true, so that width()       *)
(* counts no separator of an empty column.                                 *)
C13_FitIntoWidthComplete ==
    (FromFitIntoWidth /\ IsDisplay /\ \A i \in 1..Len(cells) : cells[i].width >= 1) =>
        /\ \A c \in 0..(num_columns_held - 1) :
               CellsMappedTo(c, num_columns_held, row_count) # {}
        /\ is_complete

====
